---- MODULE Spec2Model ----
(***************************************************************************)
(* Model of the canopy typescript plugin: the send contract (checkTx,      *)
(* deliverTx and their nested state reads and writes), the correlation     *)
(* engine of the socket client (pending table, sendSync, timeouts), its    *)
(* connection (retry loop, reconnection, close) and its frame reader.      *)
(*                                                                         *)
(* Unsigned 64-bit values (Long, unsigned) are modelled as 0..MaxUint with *)
(* arithmetic wrapping modulo MaxUint + 1, MaxUint standing for 2^64 - 1.  *)
(* Byte strings are sequences of naturals.  An optional value (T | null |  *)
(* undefined) is a sequence of length 0 or 1.                              *)
(***************************************************************************)
EXTENDS Integers, Sequences, FiniteSets, TLC

(***************************************************************************)
(* Bounds                                                                  *)
(***************************************************************************)
\* largest unsigned value of the model; stands for 2^64 - 1
MaxUint == 3

\* Long.add / Long.sub on unsigned Longs wrap modulo 2^64
U64Mod == MaxUint + 1
U64 == 0..MaxUint
LongAdd(a, b) == (a + b) % U64Mod
LongSub(a, b) == (a - b + U64Mod) % U64Mod

None == <<>>
Some(x) == <<x>>

(***************************************************************************)
(* Error taxonomy (errors.ts)                                              *)
(***************************************************************************)
PLUGIN_TIMEOUT == 1
MARSHAL == 2
UNMARSHAL == 3
FAILED_PLUGIN_READ == 4
FAILED_PLUGIN_WRITE == 5
INVALID_FSM_TO_PLUGIN_MESSAGE == 8
INSUFFICIENT_FUNDS == 9
FROM_ANY == 10
INVALID_MESSAGE_CAST == 11
INVALID_ADDRESS == 12
INVALID_AMOUNT == 13
TX_FEE_BELOW_STATE_LIMIT == 14

DEFAULT_MODULE == "plugin"

\* the message of an error is a sequence of string parts (a template and the
\* text interpolated into it)
newError(code, module, message) == [code |-> code, module |-> module, msg |-> message]

\* error: null
NoError == [code |-> 0, module |-> "", msg |-> <<>>]

errPluginTimeout == newError(PLUGIN_TIMEOUT, DEFAULT_MODULE, <<"a plugin timeout occurred">>)
errMarshal(m) == newError(MARSHAL, DEFAULT_MODULE, <<"marshal() failed with err: ">> \o m)
\* a variant that reports no error
errUnmarshalSilent(m) == NoError
errUnmarshal(m) == newError(UNMARSHAL, DEFAULT_MODULE, <<"unmarshal() failed with err: ">> \o m)
errFailedPluginRead(m) ==
    newError(FAILED_PLUGIN_READ, DEFAULT_MODULE, <<"a plugin read failed with err: ">> \o m)
errInvalidFSMToPluginMessage(m) ==
    newError(INVALID_FSM_TO_PLUGIN_MESSAGE, DEFAULT_MODULE, <<"invalid FSM to plugin: ">> \o m)
errInsufficientFunds == newError(INSUFFICIENT_FUNDS, DEFAULT_MODULE, <<"insufficient funds">>)
errFromAny(m) == newError(FROM_ANY, DEFAULT_MODULE, <<"fromAny() failed with err: ">> \o m)
errInvalidMessageCast == newError(INVALID_MESSAGE_CAST, DEFAULT_MODULE, <<"the message cast failed">>)
errInvalidAddress == newError(INVALID_ADDRESS, DEFAULT_MODULE, <<"address is invalid">>)
errInvalidAmount == newError(INVALID_AMOUNT, DEFAULT_MODULE, <<"amount is invalid">>)
errTxFeeBelowStateLimit == newError(TX_FEE_BELOW_STATE_LIMIT, DEFAULT_MODULE, <<"tx.fee is below state limit">>)

(***************************************************************************)
(* Codec helpers (proto-utils.ts, keys.ts)                                 *)
(***************************************************************************)
ACCOUNT_PREFIX == <<1>>
POOL_PREFIX == <<2>>
PARAMS_PREFIX == <<7>>

\* Config.DEFAULT_CHAIN_ID
chainId == 1

\* a variant that writes a zero length byte for an empty item
RECURSIVE joinLenPrefixKeepsEmpty(_)
joinLenPrefixKeepsEmpty(items) ==
    IF items = <<>> THEN <<>>
    ELSE <<Len(Head(items))>> \o Head(items) \o joinLenPrefixKeepsEmpty(Tail(items))

RECURSIVE joinLenPrefix(_)
joinLenPrefix(items) ==
    IF items = <<>> THEN <<>>
    ELSE LET item == Head(items) IN
         (IF Len(item) = 0 THEN <<>> ELSE <<Len(item)>> \o item)
             \o joinLenPrefix(Tail(items))

RECURSIVE bigEndian(_, _)
bigEndian(v, n) == IF n = 0 THEN <<>> ELSE bigEndian(v \div 256, n - 1) \o <<v % 256>>

\* a variant that keeps the low byte of the value only
formatUint8(value) == <<value % 256>>

formatUint64(value) == bigEndian(value, 8)

keyForAccount(address) == joinLenPrefix(<<ACCOUNT_PREFIX, address>>)
keyForFeeParams == joinLenPrefix(<<PARAMS_PREFIX, <<47, 102, 47>> >>)
keyForFeePool(id) == joinLenPrefix(<<POOL_PREFIX, formatUint64(id)>>)

\* keyForFeePool(this.config.chainId)
feePoolKeyOfChain == keyForFeePool(chainId)

validateAddress(address) == Len(address) = 20
\* the values validateAmount is given: a Long by the integer it denotes, a
\* finite number by a fraction num/den (den > 0), a number that is not
\* finite with den = 0, and values of the types it rejects outright
JsLong(value) == [type |-> "Long", num |-> value, den |-> 1]
JsNumber(num, den) == [type |-> "number", num |-> num, den |-> den]
JsOther(type) == [type |-> type, num |-> 0, den |-> 1]

\* a variant that takes a number only if it is an integer within 64 bits
validateAmountUint64(amount) ==
    IF amount.type = "Long" THEN amount.num > 0
    ELSE IF amount.type = "number"
    THEN amount.den = 1 /\ amount.num > 0 /\ amount.num <= MaxUint
    ELSE FALSE

validateAmount(amount) ==
    IF amount.type = "Long" THEN amount.num > 0
    ELSE IF amount.type = "number" THEN amount.den # 0 /\ amount.num > 0
    ELSE FALSE

(***************************************************************************)
(* Protobuf codec of the message kinds the contract stores and receives    *)
(* (proto/index.js): an opaque length-delimited encoding and its inverse.  *)
(***************************************************************************)
encodeAccount(a) == <<Len(a.address)>> \o a.address \o <<a.amount>>
decodeAccount(b) == [address |-> SubSeq(b, 2, 1 + b[1]), amount |-> b[Len(b)]]
encodePool(p) == <<p.id, p.amount>>
decodePool(b) == [id |-> b[1], amount |-> b[2]]
encodeFeeParams(f) == <<f.sendFee>>
decodeFeeParams(b) == [sendFee |-> b[1]]
encodeMessageSend(m) ==
    <<Len(m.fromAddress)>> \o m.fromAddress \o <<Len(m.toAddress)>> \o m.toAddress \o <<m.amount>>
decodeTransaction(b) == [fee |-> b[1]]
decodeMessageSend(b) ==
    [fromAddress |-> SubSeq(b, 2, 1 + b[1]),
     toAddress |-> SubSeq(b, 3 + b[1], 2 + b[1] + b[2 + b[1]]),
     amount |-> b[Len(b)]]

\* messageType.encode and messageType.decode, by the name of the type
encode(messageType, data) ==
    CASE messageType = "Account" -> encodeAccount(data)
      [] messageType = "Pool" -> encodePool(data)
      [] messageType = "FeeParams" -> encodeFeeParams(data)
      [] messageType = "MessageSend" -> encodeMessageSend(data)
decode(messageType, b) ==
    CASE messageType = "Account" -> decodeAccount(b)
      [] messageType = "Pool" -> decodePool(b)
      [] messageType = "FeeParams" -> decodeFeeParams(b)
      [] messageType = "MessageSend" -> decodeMessageSend(b)
      [] messageType = "Transaction" -> decodeTransaction(b)

\* marshal(messageType, data): the encoded bytes
marshal(messageType, data) == encode(messageType, data)

\* unmarshal(messageType, bytes): null for null or empty bytes, else the
\* decoded message
unmarshal(messageType, bytes) ==
    IF bytes = None \/ Len(bytes[1]) = 0 THEN None ELSE Some(decode(messageType, bytes[1]))

(***************************************************************************)
(* fromAny: the typed message of a protobuf Any, or a thrown error         *)
(***************************************************************************)
\* the fields a decoded object carries; fromAddress, toAddress and amount
\* are undefined on an object that is no MessageSend
NoMessage == [fields |-> {}, fromAddress |-> <<>>, toAddress |-> <<>>, amount |-> 0]

fromAny(anyMessage) ==
    IF anyMessage.typeUrl = <<>>
    THEN [ok |-> FALSE, msg |-> NoMessage,
          err |-> <<"FromAny failed: ", "Any message missing type URL">>]
    ELSE IF anyMessage.value = None
    THEN [ok |-> FALSE, msg |-> NoMessage,
          err |-> <<"FromAny failed: ", "Any message missing value">>]
    ELSE LET typeName == anyMessage.typeUrl[Len(anyMessage.typeUrl)] IN
         IF typeName \in {"MessageSend", "types.MessageSend"}
         THEN LET msg == unmarshal("MessageSend", anyMessage.value) IN
              IF msg = None
              THEN [ok |-> FALSE, msg |-> NoMessage,
                    err |-> <<"FromAny failed: ", "Failed to unmarshal MessageSend">>]
              ELSE [ok |-> TRUE,
                    msg |-> [fields |-> {"fromAddress", "toAddress", "amount"},
                             fromAddress |-> msg[1].fromAddress,
                             toAddress |-> msg[1].toAddress,
                             amount |-> msg[1].amount],
                    err |-> <<>>]
         ELSE IF typeName \in {"Transaction", "types.Transaction"}
         THEN IF unmarshal("Transaction", anyMessage.value) = None
              THEN [ok |-> FALSE, msg |-> NoMessage,
                    err |-> <<"FromAny failed: ", "Failed to unmarshal Transaction">>]
              ELSE [ok |-> TRUE, msg |-> [NoMessage EXCEPT !.fields = {"fee", "msg"}],
                    err |-> <<>>]
         ELSE [ok |-> FALSE, msg |-> NoMessage,
               err |-> <<"FromAny failed: ", "Unknown message type in Any: ", typeName>>]

isMessageSend(message) ==
    /\ "fromAddress" \in message.fields
    /\ "toAddress" \in message.fields
    /\ "amount" \in message.fields

(***************************************************************************)
(* Contract (contract.ts)                                                  *)
(***************************************************************************)
\* the reply payload a handler returns
Reply(recipient, authorizedSigners, error) ==
    [recipient |-> recipient, authorizedSigners |-> authorizedSigners, error |-> error]
ErrorReply(error) == Reply(None, <<>>, error)

\* what a handler segment ends with: a reply, or a state message sent to
\* the FSM on which the handler then waits
Returns(reply) == [done |-> TRUE, reply |-> reply, sent |-> <<>>]
Awaits(message) == [done |-> FALSE, reply |-> ErrorReply(NoError), sent |-> <<message>>]

StateReadMsg(keys) == [kind |-> "stateRead", keys |-> keys, sets |-> <<>>, deletes |-> <<>>]
StateWriteMsg(sets, deletes) == [kind |-> "stateWrite", keys |-> <<>>, sets |-> sets, deletes |-> deletes]

\* a variant that looks at the amount before the addresses
checkMessageSendAmountFirst(msg) ==
    IF ~validateAmount(JsLong(msg.amount)) THEN ErrorReply(errInvalidAmount)
    ELSE IF ~validateAddress(msg.fromAddress) THEN ErrorReply(errInvalidAddress)
    ELSE IF ~validateAddress(msg.toAddress) THEN ErrorReply(errInvalidAddress)
    ELSE Reply(Some(msg.toAddress), <<msg.fromAddress>>, NoError)

checkMessageSend(msg) ==
    IF ~validateAddress(msg.fromAddress) THEN ErrorReply(errInvalidAddress)
    ELSE IF ~validateAddress(msg.toAddress) THEN ErrorReply(errInvalidAddress)
    ELSE IF ~validateAmount(JsLong(msg.amount)) THEN ErrorReply(errInvalidAmount)
    ELSE Reply(Some(msg.toAddress), <<msg.fromAddress>>, NoError)

\* a variant that asks for the fee pool in the same read
checkTxReadWithPool(queryId) ==
    Awaits(StateReadMsg(<<[queryId |-> queryId, key |-> keyForFeeParams],
                          [queryId |-> queryId, key |-> feePoolKeyOfChain]>>))

\* checkTx up to its await: the batched read of the fee parameters
checkTxRead(queryId) == Awaits(StateReadMsg(<<[queryId |-> queryId, key |-> keyForFeeParams]>>))

\* results[0]?.entries[0]?.value
firstValue(results) ==
    IF Len(results) = 0 THEN None
    ELSE IF Len(results[1].entries) = 0 THEN None
    ELSE Some(results[1].entries[1].value)

InvalidAmountMsg == "Invalid amount: must be greater than 0"

\* checkTx from the answer of the state read to its reply
checkTxResume(request, resp) ==
    IF resp.outcome = "throw" THEN ErrorReply(errUnmarshal(resp.throwMsg))
    ELSE IF resp.error # NoError THEN ErrorReply(resp.error)
    ELSE LET feeParamsBytes == firstValue(resp.results) IN
    IF feeParamsBytes = None
    THEN ErrorReply(newError(1, "contract", <<"Fee parameters not found">>))
    ELSE LET minFees == unmarshal("FeeParams", feeParamsBytes) IN
    IF minFees = None
    THEN ErrorReply(errUnmarshal(<<"Failed to decode fee parameters">>))
    ELSE IF ~validateAmount(JsLong(request.tx.fee))
    THEN ErrorReply(errUnmarshal(<<"Failed to normalize request.tx.fee: ", InvalidAmountMsg>>))
    ELSE IF ~validateAmount(JsLong(minFees[1].sendFee))
    THEN ErrorReply(errUnmarshal(<<"Failed to normalize minFees.sendFee: ", InvalidAmountMsg>>))
    ELSE IF request.tx.fee < minFees[1].sendFee
    THEN ErrorReply(errTxFeeBelowStateLimit)
    ELSE LET any == fromAny(request.tx.msg) IN
    IF ~any.ok THEN ErrorReply(errFromAny(any.err))
    ELSE IF isMessageSend(any.msg) THEN checkMessageSend(any.msg)
    ELSE ErrorReply(errInvalidMessageCast)

\* generateQueryIds draws three ids independently at random, so any two of
\* them may coincide.  The ids are only ever compared for equality: one
\* triple is kept for each pattern of equalities among the three (the ids
\* numbered in the order fee, from, to of their first occurrence).
QueryIds == {1, 2, 3}
generateQueryIds ==
    {ids \in [fromQueryId : QueryIds, toQueryId : QueryIds, feeQueryId : QueryIds] :
        /\ ids.feeQueryId = 1
        /\ ids.fromQueryId <= 2
        /\ ids.toQueryId <= ids.fromQueryId + 1}

\* deliverTx up to its first await (the batched read of readAccountsAndFeePool)
\* or, when the message or the fee is rejected before it, to its reply
deliverTxStart(request, ids) ==
    LET any == fromAny(request.tx.msg) IN
    IF ~any.ok THEN Returns(ErrorReply(errFromAny(any.err)))
    ELSE IF ~isMessageSend(any.msg) THEN Returns(ErrorReply(errInvalidMessageCast))
    ELSE IF ~validateAmount(JsLong(request.tx.fee))
    THEN Returns(ErrorReply(errMarshal(<<InvalidAmountMsg>>)))
    ELSE Awaits(StateReadMsg(<<
             [queryId |-> ids.feeQueryId, key |-> feePoolKeyOfChain],
             [queryId |-> ids.fromQueryId, key |-> keyForAccount(any.msg.fromAddress)],
             [queryId |-> ids.toQueryId, key |-> keyForAccount(any.msg.toAddress)]>>))

\* the loop of readAccountsAndFeePool over response.results: the first
\* matching case of the switch takes the result
RECURSIVE parseResults(_, _, _)
parseResults(results, ids, acc) ==
    IF results = <<>> THEN acc
    ELSE LET result == Head(results)
             value == IF Len(result.entries) = 0 THEN None
                      ELSE Some(result.entries[1].value)
             next == IF result.queryId = ids.fromQueryId THEN [acc EXCEPT !.fromBytes = value]
                     ELSE IF result.queryId = ids.toQueryId THEN [acc EXCEPT !.toBytes = value]
                     ELSE IF result.queryId = ids.feeQueryId THEN [acc EXCEPT !.feePoolBytes = value]
                     ELSE acc
         IN parseResults(Tail(results), ids, next)

calculateUpdatedBalances(fromAmount, toAccount, msg, transactionFee, fromKey, toKey) ==
    LET messageAmount == msg.amount
        amountToDeduct == LongAdd(messageAmount, transactionFee)
        isSelfTransfer == fromKey = toKey
    IN [updatedFromAccount |->
            [address |-> msg.fromAddress, amount |-> LongSub(fromAmount, amountToDeduct)],
        updatedToAccount |->
            IF isSelfTransfer
            THEN [address |-> msg.toAddress, amount |-> LongSub(fromAmount, transactionFee)]
            ELSE [address |-> msg.toAddress, amount |-> LongAdd(toAccount.amount, messageAmount)]]

\* a variant that treats a self-transfer like any other transfer
prepareStateOperationsNoSelfCase(updatedFromAccount, updatedToAccount, updatedFeePool, keys, isSelfTransfer) ==
    LET sets0 == <<[key |-> keys.feePoolKey, value |-> marshal("Pool", updatedFeePool)]>>
        drop == updatedFromAccount.amount = 0
        sets1 == IF drop THEN sets0
                 ELSE Append(sets0, [key |-> keys.fromKey, value |-> marshal("Account", updatedFromAccount)])
    IN [sets |-> Append(sets1, [key |-> keys.toKey, value |-> marshal("Account", updatedToAccount)]),
        deletes |-> IF drop THEN <<[key |-> keys.fromKey]>> ELSE <<>>]

\* a variant that sets the sender's row even when it deletes it
prepareStateOperationsAlwaysSet(updatedFromAccount, updatedToAccount, updatedFeePool, keys, isSelfTransfer) ==
    LET sets0 == <<[key |-> keys.feePoolKey, value |-> marshal("Pool", updatedFeePool)],
                   [key |-> keys.fromKey, value |-> marshal("Account", updatedFromAccount)]>>
        drop == updatedFromAccount.amount = 0 /\ ~isSelfTransfer
        sets1 == IF ~isSelfTransfer
                 THEN Append(sets0, [key |-> keys.toKey, value |-> marshal("Account", updatedToAccount)])
                 ELSE sets0
    IN [sets |-> sets1, deletes |-> IF drop THEN <<[key |-> keys.fromKey]>> ELSE <<>>]

prepareStateOperations(updatedFromAccount, updatedToAccount, updatedFeePool, keys, isSelfTransfer) ==
    LET updatedFromBytes == marshal("Account", updatedFromAccount)
        updatedToBytes == marshal("Account", updatedToAccount)
        updatedFeePoolBytes == marshal("Pool", updatedFeePool)
        sets0 == <<[key |-> keys.feePoolKey, value |-> updatedFeePoolBytes]>>
        drop == updatedFromAccount.amount = 0 /\ ~isSelfTransfer
        sets1 == IF drop THEN sets0
                 ELSE Append(sets0, [key |-> keys.fromKey, value |-> updatedFromBytes])
        sets2 == IF ~isSelfTransfer
                 THEN Append(sets1, [key |-> keys.toKey, value |-> updatedToBytes])
                 ELSE sets1
    IN [sets |-> sets2, deletes |-> IF drop THEN <<[key |-> keys.fromKey]>> ELSE <<>>]

\* deliverMessageSend from the answer of the state read to the state write it
\* sends, or to its reply
deliverMessageSend(request, ids, resp) ==
    LET msg == fromAny(request.tx.msg).msg
        transactionFee == request.tx.fee
    IN
    IF resp.outcome = "throw" THEN Returns(ErrorReply(errMarshal(resp.throwMsg)))
    ELSE IF resp.error # NoError
    THEN Returns(ErrorReply(errMarshal(<<"State read error: ">> \o resp.error.msg)))
    ELSE LET read == parseResults(resp.results, ids,
                         [fromBytes |-> None, toBytes |-> None, feePoolBytes |-> None])
             fromAccount == unmarshal("Account", read.fromBytes)
             toDecoded == unmarshal("Account", read.toBytes)
             poolDecoded == unmarshal("Pool", read.feePoolBytes)
         IN
    \* fromAccount.amount of a null fromAccount throws a TypeError
    IF fromAccount = None
    THEN Returns(ErrorReply(errMarshal(<<"Cannot read properties of null (reading 'amount')">>)))
    ELSE LET toAccount == IF toDecoded = None
                          THEN [address |-> msg.toAddress, amount |-> 0]
                          ELSE toDecoded[1]
             feePoolAmount == IF poolDecoded = None THEN 0 ELSE poolDecoded[1].amount
             fromAmount == fromAccount[1].amount
             amountToDeduct == LongAdd(msg.amount, transactionFee)
         IN
    IF fromAmount < amountToDeduct THEN Returns(ErrorReply(errInsufficientFunds))
    \* normalizeAddress in calculateUpdatedBalances throws on either address
    ELSE IF ~validateAddress(msg.fromAddress) \/ ~validateAddress(msg.toAddress)
    THEN Returns(ErrorReply(errMarshal(<<"Invalid address: must be exactly 20 bytes">>)))
    ELSE LET fromKey == keyForAccount(msg.fromAddress)
             toKey == keyForAccount(msg.toAddress)
             feePoolKey == feePoolKeyOfChain
             updated == calculateUpdatedBalances(fromAmount, toAccount, msg,
                                                 transactionFee, fromKey, toKey)
             updatedFeePool == [id |-> chainId, amount |-> LongAdd(feePoolAmount, transactionFee)]
             ops == prepareStateOperations(updated.updatedFromAccount,
                        updated.updatedToAccount, updatedFeePool,
                        [fromKey |-> fromKey, toKey |-> toKey, feePoolKey |-> feePoolKey],
                        fromKey = toKey)
         IN Awaits(StateWriteMsg(ops.sets, ops.deletes))

\* deliverMessageSend from the answer of the state write to its reply
deliverWriteResume(resp) ==
    IF resp.outcome = "throw" THEN ErrorReply(errMarshal(resp.throwMsg))
    ELSE ErrorReply(resp.error)

(***************************************************************************)
(* One contract invocation at a time, with the FSM as its peer: the        *)
(* request the FSM sends, the answers it gives to the nested state read    *)
(* and state write, and the reply the handler returns.                     *)
(***************************************************************************)
VARIABLES
    cpc,        \* "idle", "awaitRead", "awaitWrite" or "replied"
    creq,       \* the request being handled
    cids,       \* the query ids of the batched read of deliverTx
    cawait,     \* the state message whose answer the handler awaits (optional)
    cnreads,    \* state-read messages sent by this invocation
    cnwrites,   \* state-write messages sent by this invocation
    cstore,     \* the FSM's state under the keys of the read, as it answered
    cbatch,     \* the state-write batch sent (optional)
    creply      \* the reply returned

cvars == <<cpc, creq, cids, cawait, cnreads, cnwrites, cstore, cbatch, creply>>

(***************************************************************************)
(* The socket client: the table of pending requests, the sendSync calls    *)
(* that wait on it, their timeouts, and the handlers of FSM requests.      *)
(***************************************************************************)
VARIABLES
    started,    \* start() has connected, is listening and has sent the handshake
    pending,    \* this.pending: request id -> the call whose resolve/reject it holds
    calls,      \* every sendToPluginSync call made so far
    timers,     \* the timeouts armed by waitForResponse, in the order they fire
    tasks,      \* the runs of handleFSMRequest, and the handshake
    sent,       \* the frames written to the FSM
    inbound     \* the number of frames received from the FSM

evars == <<started, pending, calls, timers, tasks, sent, inbound>>

VARIABLES
    conn,            \* this.conn: the socket the client holds, 0 for null
    sockets,         \* the sockets made by attemptConnection, in order
    isConnected,     \* this.isConnected
    isReconnecting,  \* this.isReconnecting
    loop,            \* the run of connectWithRetry in progress and where it waits
    rtimers,         \* the reconnection timeouts armed by the 'close' handler
    closeRequested   \* close() has been called

lvars == <<conn, sockets, isConnected, isReconnecting, loop, rtimers, closeRequested>>

VARIABLES
    written,         \* the payloads of the frames the FSM has written, in order
    wire,            \* the bytes written and not yet delivered to the 'data' listener
    buffer,          \* buffer of startListening
    expectedLength,  \* expectedLength of startListening, None for null
    dispatched       \* the arguments of the calls of handleInboundMessage, in order

rvars == <<written, wire, buffer, expectedLength, dispatched>>

VARIABLE kcall       \* the last call of a key or validation helper: name, argument, result

kvars == <<kcall>>

vars == <<cvars, evars, lvars, rvars, kvars>>

\* no helper has been called
HelpersIdle == kcall = [fn |-> "none", arg |-> <<>>, out |-> <<>>]

\* the reader of startListening before any byte has arrived
ReaderIdle ==
    /\ written = <<>>
    /\ wire = <<>>
    /\ buffer = <<>>
    /\ expectedLength = None
    /\ dispatched = <<>>

\* no run of connectWithRetry is in progress
NoLoop == [pc |-> "none", socket |-> 0, owner |-> "none"]

\* the connection fields of the socket client after construction
ClientIdle ==
    /\ conn = 0
    /\ sockets = <<>>
    /\ isConnected = FALSE
    /\ isReconnecting = FALSE
    /\ loop = NoLoop
    /\ rtimers = 0
    /\ closeRequested = FALSE

\* the socket client after construction
EngineIdle ==
    /\ started = FALSE
    /\ pending = <<>>
    /\ calls = <<>>
    /\ timers = <<>>
    /\ tasks = <<>>
    /\ sent = <<>>
    /\ inbound = 0

AddrA == [i \in 1..20 |-> 1]
AddrB == [i \in 1..20 |-> 2]
AddrShort == [i \in 1..19 |-> 1]
Addresses == {AddrA, AddrB, AddrShort}
\* AddrA and AddrB are interchangeable: the sender is AddrA or the short one
Senders == {AddrA, AddrShort}

MessageSends == [fromAddress : Senders, toAddress : Addresses, amount : U64]

AnyMessages ==
    {[typeUrl |-> <<"types.MessageSend">>, value |-> Some(encodeMessageSend(m))] :
        m \in MessageSends}
    \cup {[typeUrl |-> <<"type.googleapis.com", "MessageSend">>,
           value |-> Some(encodeMessageSend(
               [fromAddress |-> AddrA, toAddress |-> AddrB, amount |-> 1]))],
          [typeUrl |-> <<"types.MessageSend">>, value |-> Some(<<>>)],
          [typeUrl |-> <<"types.MessageSend">>, value |-> None],
          [typeUrl |-> <<"types.Transaction">>, value |-> Some(<<1>>)],
          [typeUrl |-> <<"types.Unknown">>, value |-> Some(<<1>>)],
          [typeUrl |-> <<>>, value |-> Some(<<1>>)]}

\* the requests of the FSM, under its id 1, and one transaction under id 2
TxRequests ==
    [id : {1}, kind : {"check", "deliver"}, tx : [fee : U64, msg : AnyMessages]]
    \cup [id : {2}, kind : {"check", "deliver"},
          tx : [fee : {1},
                msg : {[typeUrl |-> <<"types.MessageSend">>,
                        value |-> Some(encodeMessageSend(
                            [fromAddress |-> AddrA, toAddress |-> AddrB, amount |-> 1]))]}]]

NoRequest == [id |-> 0, kind |-> "none",
              tx |-> [fee |-> 0, msg |-> [typeUrl |-> <<>>, value |-> None]]]
NoIds == [fromQueryId |-> 0, toQueryId |-> 0, feeQueryId |-> 0]
NoStore == << >>

\* an error the FSM embeds in its answer
FsmError == [code |-> 1, module |-> "fsm", msg |-> <<"state failure">>]

\* what the FSM holds under a key: no entry (Absent), or the row of the
\* key's kind with the given amount (the sendFee, for the fee parameters)
Absent == None
Holdings == {Absent} \cup {Some(n) : n \in U64}
StoredValue(key, held) ==
    IF held = Absent THEN None
    ELSE IF key = keyForFeeParams THEN Some(encodeFeeParams([sendFee |-> held[1]]))
    ELSE IF key = feePoolKeyOfChain THEN Some(encodePool([id |-> chainId, amount |-> held[1]]))
    ELSE Some(encodeAccount([address |-> SubSeq(key, 4, Len(key)), amount |-> held[1]]))

\* the result the FSM gives for one query of a batched read
QueryResult(store, query) ==
    [queryId |-> query.queryId,
     entries |-> IF store[query.key] = None THEN <<>>
                 ELSE <<[key |-> query.key, value |-> store[query.key][1]]>>]

\* the orders in which the results of a batch of n queries may come back
Orders == [n \in 1..3 |-> {p \in [1..n -> 1..n] : \A i, j \in 1..n : p[i] = p[j] => i = j}]

AnswerOk(results) == [outcome |-> "ok", error |-> NoError, throwMsg |-> <<>>, results |-> results]
AnswerError == [outcome |-> "ok", error |-> FsmError, throwMsg |-> <<>>, results |-> <<>>]
\* sendSync or stateRead/stateWrite threw: the timeout, or an answer of another kind
AnswerThrows ==
    {[outcome |-> "throw", error |-> NoError, throwMsg |-> <<m>>, results |-> <<>>] :
        m \in {"Plugin timeout occurred", "Unexpected FSM response"}}

ContractIdle ==
    /\ cpc = "idle"
    /\ creq = NoRequest
    /\ cids = NoIds
    /\ cawait = None
    /\ cnreads = 0
    /\ cnwrites = 0
    /\ cstore = NoStore
    /\ cbatch = None
    /\ creply = ErrorReply(NoError)

\* a variant that counts the requests of the plugin itself
generateRequestIdOwn(fsmId) == fsmId + 1

\* generateRequestId: the id of the FSM request the contract was made for
generateRequestId(fsmId) == fsmId

\* sendToPluginAsync: the payload goes out under the id of the contract
Outbound(fsmId, payloads) ==
    [i \in 1..Len(payloads) |-> [id |-> generateRequestId(fsmId)] @@ payloads[i]]

\* genesis, beginBlock, endBlock
BlockRequest ==
    /\ cpc = "idle"
    /\ cpc' = "replied"
    /\ \E kind \in {"genesis", "begin", "end"} : creq' = [NoRequest EXCEPT !.kind = kind, !.id = 1]
    /\ creply' = ErrorReply(NoError)
    /\ UNCHANGED <<cids, cawait, cnreads, cnwrites, cstore, cbatch>>
    /\ UNCHANGED evars
    /\ UNCHANGED lvars
    /\ UNCHANGED rvars
    /\ UNCHANGED kvars

CheckTx ==
    /\ cpc = "idle"
    /\ cpc' = "awaitRead"
    /\ \E request \in TxRequests :
        /\ request.kind = "check"
        /\ creq' = request
    /\ \E queryId \in QueryIds : cawait' = Outbound(creq'.id, checkTxRead(queryId).sent)
    /\ cnreads' = Len(cawait')
    /\ UNCHANGED <<cids, cnwrites, cstore, cbatch, creply>>
    /\ UNCHANGED evars
    /\ UNCHANGED lvars
    /\ UNCHANGED rvars
    /\ UNCHANGED kvars

DeliverTx ==
    /\ cpc = "idle"
    /\ \E request \in TxRequests, ids \in generateQueryIds :
       LET r == deliverTxStart(request, ids) IN
        /\ request.kind = "deliver"
        /\ cpc' = IF r.done THEN "replied" ELSE "awaitRead"
        /\ creq' = request
        /\ cids' = IF r.done THEN NoIds ELSE ids
        /\ cawait' = Outbound(request.id, r.sent)
        /\ cnreads' = Len(r.sent)
        /\ creply' = r.reply
    /\ UNCHANGED <<cnwrites, cstore, cbatch>>
    /\ UNCHANGED evars
    /\ UNCHANGED lvars
    /\ UNCHANGED rvars
    /\ UNCHANGED kvars

\* the handler resumes with the answer to its state read
ResumeRead(store, resp) ==
    /\ cstore' = store
    /\ cawait' = None
    /\ IF creq.kind = "check"
       THEN /\ cpc' = "replied"
            /\ creply' = checkTxResume(creq, resp)
            /\ UNCHANGED <<cnwrites, cbatch>>
       ELSE LET r == deliverMessageSend(creq, cids, resp) IN
            /\ cpc' = IF r.done THEN "replied" ELSE "awaitWrite"
            /\ creply' = r.reply
            /\ cbatch' = Outbound(creq.id, r.sent)
            /\ cnwrites' = Len(r.sent)
    /\ UNCHANGED <<creq, cids, cnreads>>
    /\ UNCHANGED evars
    /\ UNCHANGED lvars
    /\ UNCHANGED rvars
    /\ UNCHANGED kvars

\* the FSM answers the batched read from its state, the results in any order
StateReadAnswer ==
    /\ cpc = "awaitRead"
    /\ LET keys == cawait[1].keys
           n == Len(keys)
           keyset == {keys[i].key : i \in 1..n} IN
       \E holds \in [keyset -> Holdings] :
       \E perm \in Orders[n] :
         LET store == [k \in keyset |-> StoredValue(k, holds[k])] IN
         ResumeRead(store, AnswerOk([i \in 1..n |-> QueryResult(store, keys[perm[i]])]))

\* the FSM holds fee parameters that encode to no bytes
StateReadEmpty ==
    /\ cpc = "awaitRead"
    /\ creq.kind = "check"
    /\ LET keys == cawait[1].keys
           store == [k \in {keys[1].key} |-> Some(<<>>)] IN
       ResumeRead(store, AnswerOk(<<[queryId |-> keys[1].queryId,
                                     entries |-> <<[key |-> keys[1].key, value |-> <<>>]>>]>>))

\* the read fails: the FSM embeds an error, or the call throws
StateReadFails ==
    /\ cpc = "awaitRead"
    /\ \E resp \in {AnswerError} \cup AnswerThrows : ResumeRead(NoStore, resp)

\* the state write is answered, or fails
StateWriteAnswer ==
    /\ cpc = "awaitWrite"
    /\ \E resp \in {AnswerOk(<<>>), AnswerError} \cup AnswerThrows :
         creply' = deliverWriteResume(resp)
    /\ cpc' = "replied"
    /\ UNCHANGED <<creq, cids, cawait, cnreads, cnwrites, cstore, cbatch>>
    /\ UNCHANGED evars
    /\ UNCHANGED lvars
    /\ UNCHANGED rvars
    /\ UNCHANGED kvars

\* the reply has been handed to the engine; the next request starts afresh
Finish ==
    /\ cpc = "replied"
    /\ cpc' = "idle"
    /\ creq' = NoRequest
    /\ cids' = NoIds
    /\ cawait' = None
    /\ cnreads' = 0
    /\ cnwrites' = 0
    /\ cstore' = NoStore
    /\ cbatch' = None
    /\ creply' = ErrorReply(NoError)
    /\ UNCHANGED evars
    /\ UNCHANGED lvars
    /\ UNCHANGED rvars
    /\ UNCHANGED kvars

ContractNext ==
    \/ BlockRequest
    \/ CheckTx
    \/ DeliverTx
    \/ StateReadAnswer
    \/ StateReadEmpty
    \/ StateReadFails
    \/ StateWriteAnswer
    \/ Finish

Init == ContractIdle /\ EngineIdle /\ ClientIdle /\ ReaderIdle /\ HelpersIdle

Spec == Init /\ [][ContractNext]_vars

(***************************************************************************)
(* The socket client as a state machine.  A step is one run of the event   *)
(* loop to its next await: the handling of one inbound frame, the          *)
(* continuation of a handler whose sendSync call has settled, or the       *)
(* firing of a timeout.                                                    *)
(***************************************************************************)
MaxInbound == 3
HandshakeId == 999
FsmIds == {1, 2}
Ids == FsmIds \cup {HandshakeId}
Payloads == {1, 2}

\* a decoded FSMToPlugin: its id, the field it carries ("none" when it
\* carries none) and the content of that field
FSMToPlugin(id, kind, payload) == [id |-> id, kind |-> kind, payload |-> payload]
InboundMessages ==
    {FSMToPlugin(1, kind, 0) : kind \in {"genesis", "check", "deliver", "end", "none"}}
        \cup {FSMToPlugin(2, kind, 0) : kind \in {"begin", "check", "deliver"}}
        \cup {FSMToPlugin(1, "stateRead", p) : p \in Payloads}
        \cup {FSMToPlugin(2, "stateRead", 1)}
        \cup {FSMToPlugin(id, "stateWrite", 1) : id \in FsmIds}
        \cup {FSMToPlugin(2, "error", 0)}
        \cup {FSMToPlugin(HandshakeId, "config", 0), FSMToPlugin(HandshakeId, "check", 0)}
NoResponse == FSMToPlugin(0, "none", 0)

\* new Error(message): an error with no code and no module
JsError(message) == [code |-> 0, module |-> "", msg |-> <<message>>]

\* a frame written to the FSM
PluginToFSM(id, kind, error) == [id |-> id, kind |-> kind, error |-> error]

Call(id, task) ==
    [id |-> id, status |-> "awaiting", response |-> NoResponse, failure |-> NoError, task |-> task]
Task(id, kind, pc, call) == [id |-> id, kind |-> kind, pc |-> pc, call |-> call]

\* Map.set and Map.delete on this.pending
MapSet(map, key, value) == [k \in DOMAIN map \cup {key} |-> IF k = key THEN value ELSE map[k]]
\* a variant that empties the table
MapClear(map, key) == << >>

MapDelete(map, key) == [k \in DOMAIN map \ {key} |-> map[k]]


\* sendToPluginSync up to its await: the pending entry is installed, the
\* frame is written and the timeout is armed
sendToPluginSync(fsmId, kind, task) ==
    LET requestId == generateRequestId(fsmId)
        call == Len(calls) + 1 IN
    /\ pending' = MapSet(pending, requestId, call)
    /\ calls' = Append(calls, Call(requestId, task))
    \* sendProtoMsg throws when there is no connection, and what it throws
    \* is dropped (void): nothing is written and the call waits all the same
    /\ sent' = IF conn = 0 THEN sent ELSE Append(sent, PluginToFSM(requestId, kind, NoError))
    /\ timers' = Append(timers, call)

\* a variant that resolves every waiter
handleFSMResponseAll(message) ==
    /\ pending' = MapDelete(pending, message.id)
    /\ calls' = [c \in 1..Len(calls) |->
                    IF calls[c].status = "awaiting"
                    THEN [calls[c] EXCEPT !.status = "resolved", !.response = message]
                    ELSE calls[c]]
    /\ UNCHANGED <<timers, tasks, sent>>

\* handleFSMResponse: the entry is removed and its waiter resolved with the
\* message
handleFSMResponse(message) ==
    LET call == pending[message.id] IN
    /\ pending' = MapDelete(pending, message.id)
    /\ calls' = [calls EXCEPT ![call].status = "resolved", ![call].response = message]
    /\ UNCHANGED <<timers, tasks, sent>>

\* a variant that holds a reply for every message that reads no state
handleFSMRequestRepliesToAll(message) ==
    LET task == Len(tasks) + 1 IN
    IF message.kind \in {"check", "deliver"}
    THEN /\ tasks' = Append(tasks, Task(message.id, message.kind, "read", Len(calls) + 1))
         /\ sendToPluginSync(message.id, "stateRead", task)
    ELSE /\ tasks' = Append(tasks, Task(message.id, message.kind, "reply", 0))
         /\ UNCHANGED <<pending, calls, timers, sent>>

\* a variant that answers an error frame of the FSM
handleFSMRequestAnswersError(message) ==
    LET task == Len(tasks) + 1 IN
    IF message.kind \in {"check", "deliver"}
    THEN /\ tasks' = Append(tasks, Task(message.id, message.kind, "read", Len(calls) + 1))
         /\ sendToPluginSync(message.id, "stateRead", task)
    ELSE IF message.kind \in {"genesis", "begin", "end", "none", "error"}
    THEN /\ tasks' = Append(tasks, Task(message.id, message.kind, "reply", 0))
         /\ UNCHANGED <<pending, calls, timers, sent>>
    ELSE /\ tasks' = Append(tasks, Task(message.id, message.kind, "done", 0))
         /\ UNCHANGED <<pending, calls, timers, sent>>

\* handleFSMRequest up to its first await
handleFSMRequest(message) ==
    LET task == Len(tasks) + 1 IN
    IF message.kind \in {"check", "deliver"}
    THEN \* checkTx and deliverTx reach their state read
         /\ tasks' = Append(tasks, Task(message.id, message.kind, "read", Len(calls) + 1))
         /\ sendToPluginSync(message.id, "stateRead", task)
    ELSE IF message.kind \in {"genesis", "begin", "end", "none"}
    THEN \* a result, or the error of an invalid message, is ready to be sent
         /\ tasks' = Append(tasks, Task(message.id, message.kind, "reply", 0))
         /\ UNCHANGED <<pending, calls, timers, sent>>
    ELSE \* config, stateRead, stateWrite, error: no reply
         /\ tasks' = Append(tasks, Task(message.id, message.kind, "done", 0))
         /\ UNCHANGED <<pending, calls, timers, sent>>

\* a variant that takes only config, stateRead and stateWrite frames for
\* responses
isPendingResponseKind(message) ==
    message.id \in DOMAIN pending /\ message.kind \in {"config", "stateRead", "stateWrite"}

\* analyzeMessageRouting
isPending(message) == message.id \in DOMAIN pending

HandleInboundMessage ==
    /\ started
    /\ \E s \in 1..Len(sockets) : sockets[s].listening /\ sockets[s].state = "open"
    /\ inbound < MaxInbound
    /\ inbound' = inbound + 1
    /\ \E message \in InboundMessages :
         \* ids are only compared for equality: id 2 is the second id the FSM uses
         /\ message.id = 2 => \E t \in 1..Len(tasks) : tasks[t].id = 1
         /\ IF isPending(message) THEN handleFSMResponse(message) ELSE handleFSMRequest(message)
    /\ UNCHANGED started
    /\ UNCHANGED lvars
    /\ UNCHANGED cvars
    /\ UNCHANGED rvars
    /\ UNCHANGED kvars

\* what a rejected or mismatched sendSync call throws into the contract
Thrown(message) ==
    [outcome |-> "throw", error |-> NoError, throwMsg |-> <<message>>, results |-> <<>>]

\* a variant that answers under id 0
sendResponseToFSMNoId(messageId, kind, error) == PluginToFSM(0, kind, error)

\* sendResponseToFSM and sendErrorResponse: the frame written
sendResponseToFSM(messageId, kind, error) == PluginToFSM(messageId, kind, error)
sendErrorResponse(messageId, errorMessage) ==
    PluginToFSM(messageId, "error", newError(1, "plugin", <<errorMessage>>))

\* the outcomes of the contract that the socket client does not decide: the
\* error of a checkTx reply, and of a deliverTx that replies without writing
CheckOutcomes == {NoError, errTxFeeBelowStateLimit}
DeliverRejections == {errInsufficientFunds}

\* the reply of a handler whose sendSync call threw
replyAfterThrow(task, message) ==
    IF task.kind = "check"
    THEN sendResponseToFSM(task.id, "check", checkTxResume(NoRequest, Thrown(message)).error)
    ELSE IF task.pc = "read"
    THEN sendResponseToFSM(task.id, "deliver",
             deliverMessageSend(NoRequest, NoIds, Thrown(message)).reply.error)
    ELSE sendResponseToFSM(task.id, "deliver", deliverWriteResume(Thrown(message)).error)

\* a handler continues: after its sendSync call was resolved, or to send
\* the result it holds
ready(t) ==
    \/ tasks[t].pc = "reply"
    \/ tasks[t].pc \in {"config", "read", "write"} /\ calls[tasks[t].call].status = "resolved"

\* no handler has a continuation to run: timers and socket events are
\* served only then
Quiet == \A t \in 1..Len(tasks) : ~ready(t)

\* attemptConnection up to its await: a new socket replaces this.conn
attemptConnection(owner) ==
    /\ sockets' = Append(sockets, [state |-> "connecting", listening |-> FALSE])
    /\ conn' = Len(sockets) + 1
    /\ loop' = [pc |-> "attempt", socket |-> Len(sockets) + 1, owner |-> owner]

\* connectWithRetry up to its first await: it returns at once when a run is
\* in progress or the client is connected, and else makes the first attempt
connectWithRetry(owner) ==
    IF isReconnecting \/ isConnected
    THEN UNCHANGED <<conn, sockets, isReconnecting, loop>>
    ELSE /\ isReconnecting' = TRUE
         /\ attemptConnection(owner)

\* the 'close' handler of attemptConnection arms a reconnection timeout
\* unless isReconnecting is set
onClose(reconnecting) == rtimers' = IF reconnecting THEN rtimers ELSE rtimers + 1

\* start() up to its first await, the first connection attempt
Start ==
    /\ ~started
    /\ sockets = <<>>
    /\ ~closeRequested
    /\ connectWithRetry("start")
    /\ UNCHANGED <<isConnected, rtimers, closeRequested>>
    /\ UNCHANGED evars
    /\ UNCHANGED cvars
    /\ UNCHANGED rvars
    /\ UNCHANGED kvars

\* the socket of the attempt in progress opens: the 'connect' handlers set
\* isConnected and end connectWithRetry, and start(), when it is the caller,
\* goes on to startListening and to the handshake up to its await
SocketConnect ==
    \E s \in 1..Len(sockets) :
    /\ sockets[s].state = "connecting"
    /\ loop.pc = "attempt" /\ loop.socket = s
    /\ Quiet
    /\ isConnected' = TRUE
    /\ isReconnecting' = FALSE
    /\ loop' = NoLoop
    /\ IF loop.owner = "start"
       THEN /\ conn # 0
            /\ sockets' = [sockets EXCEPT ![s].state = "open", ![conn].listening = TRUE]
            /\ started' = TRUE
            /\ tasks' = Append(tasks, Task(HandshakeId, "handshake", "config", Len(calls) + 1))
            /\ sendToPluginSync(HandshakeId, "config", Len(tasks) + 1)
       ELSE /\ sockets' = [sockets EXCEPT ![s].state = "open"]
            /\ UNCHANGED <<started, pending, calls, timers, tasks, sent>>
    /\ UNCHANGED <<conn, rtimers, closeRequested, inbound>>
    /\ UNCHANGED cvars
    /\ UNCHANGED rvars
    /\ UNCHANGED kvars

\* a variant that accepts whatever resolves the handshake
handshakeAnyResponse(response) == "done"

\* handshake after its await: it throws unless the response has a config
handshake(response) == IF response.kind = "config" THEN "done" ELSE "failed"

Resume ==
    \E t \in 1..Len(tasks) :
    LET task == tasks[t]
        response == IF task.call = 0 THEN NoResponse ELSE calls[task.call].response
        finish(frame) ==
            /\ tasks' = [tasks EXCEPT ![t].pc = "done"]
            /\ sent' = Append(sent, frame)
            /\ UNCHANGED <<pending, calls, timers>>
    IN
    /\ ready(t)
    /\ IF task.pc = "reply"
       THEN IF task.kind = "none"
            THEN finish(sendErrorResponse(task.id, "Invalid FSM to plugin message type"))
            ELSE finish(sendResponseToFSM(task.id, task.kind, NoError))
       ELSE IF task.kind = "handshake"
       THEN /\ tasks' = [tasks EXCEPT ![t].pc = handshake(response)]
            /\ UNCHANGED <<pending, calls, timers, sent>>
       ELSE IF task.pc = "read" /\ response.kind # "stateRead"
       THEN finish(replyAfterThrow(task, "Unexpected FSM response to state read"))
       ELSE IF task.pc = "write" /\ response.kind # "stateWrite"
       THEN finish(replyAfterThrow(task, "Unexpected FSM response to state write"))
       ELSE IF task.kind = "check"
       THEN \E error \in CheckOutcomes : finish(sendResponseToFSM(task.id, "check", error))
       ELSE IF task.pc = "read"
       THEN \/ \E error \in DeliverRejections :
                 finish(sendResponseToFSM(task.id, "deliver", error))
            \/ /\ tasks' = [tasks EXCEPT ![t].pc = "write", ![t].call = Len(calls) + 1]
               /\ sendToPluginSync(task.id, "stateWrite", t)
       ELSE finish(sendResponseToFSM(task.id, "deliver", NoError))
    /\ UNCHANGED <<started, inbound>>
    /\ UNCHANGED lvars
    /\ UNCHANGED cvars
    /\ UNCHANGED rvars
    /\ UNCHANGED kvars

\* the timeout armed by waitForResponse fires: it deletes the entry under its
\* request id and rejects; the handler that still awaited the call replies
TimerFire ==
    /\ timers # <<>>
    /\ \A t \in 1..Len(tasks) : ~ready(t)
    /\ LET call == Head(timers)
           requestId == calls[call].id
           t == calls[call].task
       IN
       /\ timers' = Tail(timers)
       /\ pending' = MapDelete(pending, requestId)
       /\ IF calls[call].status = "awaiting"
          THEN /\ calls' = [calls EXCEPT ![call].status = "rejected",
                                         ![call].failure = JsError("Plugin timeout occurred")]
               /\ IF tasks[t].kind \in {"handshake", "caller"}
                  THEN /\ tasks' = [tasks EXCEPT ![t].pc = "failed"]
                       /\ UNCHANGED sent
                  ELSE /\ tasks' = [tasks EXCEPT ![t].pc = "done"]
                       /\ sent' = Append(sent, replyAfterThrow(tasks[t], "Plugin timeout occurred"))
          ELSE UNCHANGED <<calls, tasks, sent>>
    /\ UNCHANGED <<started, inbound>>
    /\ UNCHANGED lvars
    /\ UNCHANGED cvars
    /\ UNCHANGED rvars
    /\ UNCHANGED kvars

EngineNext ==
    \/ Start
    \/ SocketConnect
    \/ HandleInboundMessage
    \/ Resume
    \/ TimerFire

EngineSpec == Init /\ [][EngineNext]_vars

\* the event loop runs every continuation that is ready, and every timeout
\* armed fires once nothing is ready
FairEngineSpec == EngineSpec /\ WF_vars(Resume) /\ WF_vars(TimerFire)

(***************************************************************************)
(* The connection of the socket client: the retry loop of connectWithRetry,*)
(* the events of its sockets, the reconnection timeout and close().  The   *)
(* only frame the FSM sends here is its answer to the handshake.           *)
(***************************************************************************)
MaxSockets == 3

\* cleanupFailedConnection and waitForReconnect: the socket held is
\* destroyed and dropped, and the loop waits for reconnectInterval
cleanupFailedConnection ==
    /\ conn' = 0
    /\ isConnected' = FALSE
    /\ loop' = [loop EXCEPT !.pc = "backoff"]

\* the connection attempt in progress fails: 'error' and then 'close' are
\* emitted on its socket and the promise of attemptConnection rejects
SocketError ==
    \E s \in 1..Len(sockets) :
    /\ sockets[s].state = "connecting"
    /\ loop.pc = "attempt" /\ loop.socket = s
    /\ Quiet
    /\ sockets' = [sockets EXCEPT ![s].state = "closed"]
    /\ cleanupFailedConnection
    /\ onClose(isReconnecting)
    /\ UNCHANGED <<isReconnecting, closeRequested>>
    /\ UNCHANGED evars
    /\ UNCHANGED cvars
    /\ UNCHANGED rvars
    /\ UNCHANGED kvars

\* the connection timeout of the attempt in progress fires: the socket is
\* destroyed and the promise of attemptConnection rejects
ConnectionTimeout ==
    /\ loop.pc = "attempt"
    /\ sockets[loop.socket].state \in {"connecting", "destroyed"}
    /\ Quiet
    /\ sockets' = [sockets EXCEPT ![loop.socket].state = "destroyed"]
    /\ cleanupFailedConnection
    /\ IF sockets[loop.socket].state = "connecting"
       THEN onClose(isReconnecting)
       ELSE UNCHANGED rtimers
    /\ UNCHANGED <<isReconnecting, closeRequested>>
    /\ UNCHANGED evars
    /\ UNCHANGED cvars
    /\ UNCHANGED rvars
    /\ UNCHANGED kvars

\* waitForReconnect ends: connectWithRetry tests isConnected and makes the
\* next attempt
BackoffElapses ==
    /\ loop.pc = "backoff"
    /\ Quiet
    /\ IF isConnected
       THEN /\ isReconnecting' = FALSE
            /\ loop' = NoLoop
            /\ UNCHANGED <<conn, sockets>>
       ELSE /\ Len(sockets) < MaxSockets
            /\ attemptConnection(loop.owner)
            /\ UNCHANGED isReconnecting
    /\ UNCHANGED <<isConnected, rtimers, closeRequested>>
    /\ UNCHANGED evars
    /\ UNCHANGED cvars
    /\ UNCHANGED rvars
    /\ UNCHANGED kvars

\* an open socket is closed by the FSM or fails: the 'error' and 'close'
\* handlers of attemptConnection run
SocketClose ==
    \E s \in 1..Len(sockets) :
    /\ sockets[s].state = "open"
    /\ Quiet
    /\ sockets' = [sockets EXCEPT ![s].state = "closed"]
    /\ isConnected' = FALSE
    /\ onClose(isReconnecting)
    /\ UNCHANGED <<conn, isReconnecting, loop, closeRequested>>
    /\ UNCHANGED evars
    /\ UNCHANGED cvars
    /\ UNCHANGED rvars
    /\ UNCHANGED kvars

\* a reconnection timeout armed by the 'close' handler fires
ReconnectTimer ==
    /\ rtimers > 0
    /\ Quiet
    /\ rtimers' = rtimers - 1
    /\ (~isReconnecting /\ ~isConnected) => Len(sockets) < MaxSockets
    /\ connectWithRetry("timer")
    /\ UNCHANGED <<isConnected, closeRequested>>
    /\ UNCHANGED evars
    /\ UNCHANGED cvars
    /\ UNCHANGED rvars
    /\ UNCHANGED kvars

\* close(), called once start() has been called
Close ==
    /\ sockets # <<>>
    /\ ~closeRequested
    /\ Quiet
    /\ closeRequested' = TRUE
    /\ isConnected' = FALSE
    /\ IF conn = 0
       THEN UNCHANGED <<conn, sockets, isReconnecting>>
       ELSE /\ isReconnecting' = TRUE
            /\ conn' = 0
            /\ sockets' = [sockets EXCEPT ![conn].state =
                               IF @ \in {"connecting", "open"} THEN "destroyed" ELSE @]
    /\ UNCHANGED <<loop, rtimers>>
    /\ UNCHANGED evars
    /\ UNCHANGED cvars
    /\ UNCHANGED rvars
    /\ UNCHANGED kvars

\* the FSM answers the handshake: the 'data' listener of startListening
\* receives the frame on its socket and handleInboundMessage routes it
HandshakeReply ==
    LET message == FSMToPlugin(HandshakeId, "config", 0) IN
    /\ \E s \in 1..Len(sockets) : sockets[s].listening /\ sockets[s].state = "open"
    /\ Quiet
    /\ isPending(message)
    /\ inbound' = inbound + 1
    /\ handleFSMResponse(message)
    /\ UNCHANGED started
    /\ UNCHANGED lvars
    /\ UNCHANGED cvars
    /\ UNCHANGED rvars
    /\ UNCHANGED kvars

\* stateRead, a public method, is called for a contract of the FSM id 1
\* by a caller that then awaits it, whatever the state of the connection
StateReadCall ==
    /\ Quiet
    /\ \A c \in 1..Len(calls) : calls[c].id # 1
    /\ tasks' = Append(tasks, Task(1, "caller", "call", Len(calls) + 1))
    /\ sendToPluginSync(1, "stateRead", Len(tasks) + 1)
    /\ UNCHANGED <<started, inbound>>
    /\ UNCHANGED lvars
    /\ UNCHANGED cvars
    /\ UNCHANGED rvars
    /\ UNCHANGED kvars

ClientNext ==
    \/ Start
    \/ SocketConnect
    \/ SocketError
    \/ ConnectionTimeout
    \/ BackoffElapses
    \/ SocketClose
    \/ ReconnectTimer
    \/ Close
    \/ HandshakeReply
    \/ StateReadCall
    \/ Resume
    \/ TimerFire

ClientSpec == Init /\ [][ClientNext]_vars

(***************************************************************************)
(* The frame reader of startListening.  The FSM writes frames, each the    *)
(* length of its payload as four big-endian bytes and then the payload;    *)
(* the socket delivers the bytes to the 'data' listener in chunks of any   *)
(* size.                                                                   *)
(***************************************************************************)
MaxFrames == 3

\* the payloads the FSM sends: empty, one byte, and two that read as
\* length prefixes themselves
FramePayloads == {<<>>, <<7>>, <<0, 0, 0, 0>>, <<0, 0, 0, 1, 7>>}

\* a variant that reads the first byte of the prefix only
readUInt8(b) == b[1]

\* Buffer.readUInt32BE(0)
readUInt32BE(b) == ((b[1] * 256 + b[2]) * 256 + b[3]) * 256 + b[4]

\* a variant that waits for one byte more than the message
hasMessageAndMore(buf, expected) == expected # None /\ Len(buf) > expected[1]

\* the test of the 'data' listener for a whole message in the buffer
hasMessage(buf, expected) == expected # None /\ Len(buf) >= expected[1]

\* the while loop of the 'data' listener: the buffer, the expected length
\* and the messages handed to handleInboundMessage when it ends
RECURSIVE readLoop(_, _, _)
readLoop(buf, expected, out) ==
    IF Len(buf) = 0
    THEN [buffer |-> buf, expectedLength |-> expected, dispatched |-> out]
    ELSE LET prefix == expected = None /\ Len(buf) >= 4
             expected1 == IF prefix THEN Some(readUInt32BE(buf)) ELSE expected
             buf1 == IF prefix THEN SubSeq(buf, 5, Len(buf)) ELSE buf
         IN IF hasMessage(buf1, expected1)
            THEN readLoop(SubSeq(buf1, expected1[1] + 1, Len(buf1)), None,
                          Append(out, SubSeq(buf1, 1, expected1[1])))
            ELSE [buffer |-> buf1, expectedLength |-> expected1, dispatched |-> out]

\* the FSM writes one more frame
FsmWrites ==
    /\ Len(written) < MaxFrames
    /\ \E payload \in FramePayloads :
         /\ written' = Append(written, payload)
         /\ wire' = wire \o bigEndian(Len(payload), 4) \o payload
    /\ UNCHANGED <<buffer, expectedLength, dispatched>>
    /\ UNCHANGED <<cvars, evars, lvars>>
    /\ UNCHANGED kvars

\* the 'data' listener runs on the next chunk
Data ==
    \E n \in 1..Len(wire) :
    LET data == SubSeq(wire, 1, n)
        end == readLoop(buffer \o data, expectedLength, dispatched) IN
    /\ wire' = SubSeq(wire, n + 1, Len(wire))
    /\ buffer' = end.buffer
    /\ expectedLength' = end.expectedLength
    /\ dispatched' = end.dispatched
    /\ UNCHANGED written
    /\ UNCHANGED <<cvars, evars, lvars>>
    /\ UNCHANGED kvars

ReaderNext == FsmWrites \/ Data

ReaderSpec == Init /\ [][ReaderNext]_vars

(***************************************************************************)
(* The key builders and the amount validation, called on their own         *)
(* (keys.ts, proto-utils.ts)                                               *)
(***************************************************************************)
\* 20-byte addresses: all bytes 0, or one byte of another value
KeyAddresses ==
    {[i \in 1..20 |-> 0]} \cup
    {[i \in 1..20 |-> IF i = k THEN b ELSE 0] : k \in 1..20, b \in {1, 20, 255}}

\* chain ids around the byte boundaries of the encoding
ChainIds == {0, 1, 2, 255, 256, 257, 65535, 65536, 16777215, 16777216, 2147483647}

\* arguments of the joiner with empty items among them
JoinArguments == UNION {[1..n -> {<<>>, <<1>>, <<0, 0>>}] : n \in 0..3}

\* amounts of every type validateAmount tells apart, below, at and above the
\* ends of the unsigned range, whole and fractional
Amounts ==
    {JsLong(v) : v \in -1..MaxUint} \cup
    {JsNumber(n, d) : n \in -1..(2 * MaxUint + 2), d \in {0, 1, 2}} \cup
    {JsOther(t) : t \in {"undefined", "boolean", "object"}}

KeyForAccount ==
    /\ \E address \in KeyAddresses :
         kcall' = [fn |-> "keyForAccount", arg |-> address, out |-> keyForAccount(address)]
    /\ UNCHANGED <<cvars, evars, lvars, rvars>>

KeyForFeePool ==
    /\ \E id \in ChainIds :
         kcall' = [fn |-> "keyForFeePool", arg |-> id, out |-> keyForFeePool(id)]
    /\ UNCHANGED <<cvars, evars, lvars, rvars>>

KeyForFeeParams ==
    /\ kcall' = [fn |-> "keyForFeeParams", arg |-> <<>>, out |-> keyForFeeParams]
    /\ UNCHANGED <<cvars, evars, lvars, rvars>>

JoinLenPrefix ==
    /\ \E items \in JoinArguments :
         kcall' = [fn |-> "joinLenPrefix", arg |-> items, out |-> joinLenPrefix(items)]
    /\ UNCHANGED <<cvars, evars, lvars, rvars>>

ValidateAmount ==
    /\ \E amount \in Amounts :
         kcall' = [fn |-> "validateAmount", arg |-> amount, out |-> validateAmount(amount)]
    /\ UNCHANGED <<cvars, evars, lvars, rvars>>

HelperNext ==
    \/ KeyForAccount
    \/ KeyForFeePool
    \/ KeyForFeeParams
    \/ JoinLenPrefix
    \/ ValidateAmount

HelperSpec == Init /\ [][HelperNext]_vars

(***************************************************************************)
(* Properties of the contract                                              *)
(***************************************************************************)
\* the MessageSend of the current request, its fee and its keys
Msg == fromAny(creq.tx.msg).msg
Fee == creq.tx.fee
KFrom == keyForAccount(Msg.fromAddress)
KTo == keyForAccount(Msg.toAddress)

IsSend == fromAny(creq.tx.msg).ok /\ isMessageSend(Msg)
\* the FSM answered the state read with results
ReadAnswered == DOMAIN cstore # {}
\* the three query ids of the batched read differ from one another
DistinctIds ==
    Cardinality({cids.feeQueryId, cids.fromQueryId, cids.toQueryId}) = 3
\* deliverTx has replied {error: null}
DeliverSucceeded == cpc = "replied" /\ creq.kind = "deliver" /\ creply.error = NoError

\* the amount of the row a state holds under a key, 0 when there is none
AmountOf(key, bytes) ==
    IF key = feePoolKeyOfChain THEN decodePool(bytes).amount ELSE decodeAccount(bytes).amount
Held(store, key) ==
    IF key \in DOMAIN store /\ store[key] # None THEN AmountOf(key, store[key][1]) ELSE 0

SetsOf(batch, key) == {i \in 1..Len(batch.sets) : batch.sets[i].key = key}
DeletesOf(batch, key) == {i \in 1..Len(batch.deletes) : batch.deletes[i].key = key}
BatchKeys(batch) ==
    {batch.sets[i].key : i \in 1..Len(batch.sets)}
        \cup {batch.deletes[i].key : i \in 1..Len(batch.deletes)}
Max(S) == CHOOSE x \in S : \A y \in S : y <= x

\* the state after the FSM applies a write batch: the sets, then the deletes
ApplyBatch(store, batch) ==
    [k \in DOMAIN store \cup BatchKeys(batch) |->
        IF DeletesOf(batch, k) # {} THEN None
        ELSE IF SetsOf(batch, k) # {} THEN Some(batch.sets[Max(SetsOf(batch, k))].value)
        ELSE store[k]]

\* C1: a successful deliverTx between different addresses (its three query
\* ids distinct) moves amount + fee
\* out of the sender's balance, amount into the recipient's and fee into the
\* pool, so that their sum is unchanged
C1_Conservation ==
    (DeliverSucceeded /\ DistinctIds /\ Msg.fromAddress # Msg.toAddress) =>
        LET after == ApplyBatch(cstore, cbatch[1]) IN
        /\ Held(after, KFrom) = Held(cstore, KFrom) - (Msg.amount + Fee)
        /\ Held(after, KTo) = Held(cstore, KTo) + Msg.amount
        /\ Held(after, feePoolKeyOfChain) = Held(cstore, feePoolKeyOfChain) + Fee

\* C2: a successful self-transfer (its three query ids distinct) writes the
\* account's previous balance
\* minus the fee, and the pool's previous amount plus the fee
C2_SelfTransfer ==
    (DeliverSucceeded /\ DistinctIds /\ Msg.fromAddress = Msg.toAddress) =>
        LET after == ApplyBatch(cstore, cbatch[1]) IN
        /\ SetsOf(cbatch[1], KFrom) # {}
        /\ Held(after, KFrom) = Held(cstore, KFrom) - Fee
        /\ Held(after, feePoolKeyOfChain) = Held(cstore, feePoolKeyOfChain) + Fee

\* C3: when the balance read for the sender (the three query ids distinct)
\* is below amount + fee, no state
\* write is sent and the reply carries INSUFFICIENT_FUNDS
C3_InsufficientFunds ==
    (/\ creq.kind = "deliver"
     /\ DistinctIds
     /\ cpc \in {"awaitWrite", "replied"}
     /\ ReadAnswered
     /\ cstore[KFrom] # None
     /\ Held(cstore, KFrom) < Msg.amount + Fee) =>
        /\ cnwrites = 0
        /\ creply.error = errInsufficientFunds

\* C4: when (the three query ids distinct) amount + fee, recipient balance +
\* amount or pool amount + fee
\* exceeds the largest unsigned value, deliverTx sends no state write and
\* replies with an error
C4_NoWrap ==
    (/\ creq.kind = "deliver"
     /\ DistinctIds
     /\ cpc \in {"awaitWrite", "replied"}
     /\ ReadAnswered
     /\ \/ Msg.amount + Fee > MaxUint
        \/ Msg.fromAddress # Msg.toAddress /\ Held(cstore, KTo) + Msg.amount > MaxUint
        \/ Held(cstore, feePoolKeyOfChain) + Fee > MaxUint) =>
        /\ cnwrites = 0
        /\ cpc = "replied"
        /\ creply.error # NoError

\* C5: when the read (its three query ids distinct) returns no entry for the
\* sender's key and
\* amount + fee > 0, the reply carries INSUFFICIENT_FUNDS and no state
\* write is sent
C5_AbsentSender ==
    (/\ creq.kind = "deliver"
     /\ DistinctIds
     /\ cpc \in {"awaitWrite", "replied"}
     /\ ReadAnswered
     /\ cstore[KFrom] = None
     /\ Msg.amount + Fee > 0) =>
        /\ cnwrites = 0
        /\ creply.error = errInsufficientFunds

\* the row a successful non-self deliverTx leaves the sender with
NewSenderBalance == LongSub(Held(cstore, KFrom), LongAdd(Msg.amount, Fee))

\* C6: the write batch of a deliverTx between different addresses names the
\* sender's key exactly once, as a delete when the sender's new balance is 0
\* and as a set of the new balance otherwise, and holds besides exactly one
\* set for the recipient's key and one for the fee pool key
C6_WriteBatch ==
    (creq.kind = "deliver" /\ cbatch # None /\ Msg.fromAddress # Msg.toAddress) =>
        LET batch == cbatch[1] IN
        /\ Cardinality(SetsOf(batch, KFrom)) + Cardinality(DeletesOf(batch, KFrom)) = 1
        /\ Cardinality(SetsOf(batch, KTo)) = 1
        /\ Cardinality(SetsOf(batch, feePoolKeyOfChain)) = 1
        /\ Len(batch.sets) + Len(batch.deletes) = 3
        /\ \A i \in SetsOf(batch, KFrom) : decodeAccount(batch.sets[i].value).amount # 0
        /\ DistinctIds =>
            /\ DeletesOf(batch, KFrom) # {} <=> NewSenderBalance = 0
            /\ \A i \in SetsOf(batch, KFrom) :
                 decodeAccount(batch.sets[i].value) =
                     [address |-> Msg.fromAddress, amount |-> NewSenderBalance]

\* a successful deliverTx between different addresses that drains the sender
C6_Witness ==
    /\ DeliverSucceeded
    /\ DistinctIds
    /\ Msg.fromAddress # Msg.toAddress
    /\ Held(cstore, KFrom) > 0
    /\ DeletesOf(cbatch[1], KFrom) # {}

\* the fee parameters the FSM returned to checkTx
FeeParamsHeld ==
    /\ creq.kind = "check"
    /\ cpc = "replied"
    /\ ReadAnswered
    /\ cstore[keyForFeeParams] # None
    /\ Len(cstore[keyForFeeParams][1]) > 0
StoredSendFee == decodeFeeParams(cstore[keyForFeeParams][1]).sendFee

\* C7: with a fee below the stored sendFee, checkTx replies
\* TX_FEE_BELOW_STATE_LIMIT after exactly one state read and no other state
\* operation
C7_FeeBelowLimit ==
    (FeeParamsHeld /\ Fee < StoredSendFee) =>
        /\ creply = ErrorReply(errTxFeeBelowStateLimit)
        /\ cnreads = 1
        /\ cnwrites = 0

\* C8: with a fee of at least the stored sendFee, checkTx of a MessageSend
\* with two 20-byte addresses and a positive amount replies with the
\* recipient, the sender as the only authorized signer, and no error
C8_CheckAccepts ==
    (/\ FeeParamsHeld
     /\ Fee >= StoredSendFee
     /\ IsSend
     /\ Len(Msg.fromAddress) = 20
     /\ Len(Msg.toAddress) = 20
     /\ Msg.amount > 0) =>
        creply = Reply(Some(Msg.toAddress), <<Msg.fromAddress>>, NoError)

\* checkTx has got past its fee check: the fee and the stored sendFee are
\* amounts it could normalize and the fee is not below the sendFee
FeeFloorPassed ==
    /\ FeeParamsHeld
    /\ Fee > 0
    /\ StoredSendFee > 0
    /\ Fee >= StoredSendFee

\* the Any message of the request by its own fields: the last segment of
\* its type URL, whether fromAny has a type for it, and what it carries
TypeName == creq.tx.msg.typeUrl[Len(creq.tx.msg.typeUrl)]
Convertible ==
    /\ creq.tx.msg.typeUrl # <<>>
    /\ creq.tx.msg.value # None
    /\ creq.tx.msg.value # Some(<<>>)
    /\ TypeName \in {"MessageSend", "types.MessageSend", "Transaction", "types.Transaction"}
Carried == decodeMessageSend(creq.tx.msg.value[1])

\* C26: past the fee check, checkTx replies with the error of the first of
\* these that fails, and with no error if none does: the message converts
\* (FROM_ANY, 10); it is a MessageSend (INVALID_MESSAGE_CAST, 11); its
\* fromAddress has 20 bytes (INVALID_ADDRESS, 12); its toAddress has 20
\* bytes (INVALID_ADDRESS, 12); its amount is above 0 (INVALID_AMOUNT, 13).
C26_FirstFailureReported ==
    FeeFloorPassed =>
        creply.error.code =
            IF ~Convertible THEN 10
            ELSE IF TypeName \notin {"MessageSend", "types.MessageSend"} THEN 11
            ELSE IF Len(Carried.fromAddress) # 20 THEN 12
            ELSE IF Len(Carried.toAddress) # 20 THEN 12
            ELSE IF Carried.amount <= 0 THEN 13
            ELSE 0

\* past the fee check, a MessageSend whose two addresses are short and whose
\* amount is 0 was answered with INVALID_ADDRESS
C26_Witness ==
    /\ FeeFloorPassed
    /\ Convertible
    /\ TypeName = "types.MessageSend"
    /\ Carried = [fromAddress |-> AddrShort, toAddress |-> AddrShort, amount |-> 0]
    /\ creply = ErrorReply(errInvalidAddress)

\* C27: a checkTx invocation, whatever its request, sends one state read,
\* of the single key keyForFeeParams(), and no state write; genesis,
\* beginBlock and endBlock send no state message and reply {error: null}.
C27_CheckReadsOnce ==
    /\ creq.kind = "check" =>
         /\ cnreads = 1
         /\ cnwrites = 0
         /\ cbatch = None
         /\ cpc = "awaitRead" =>
              \E queryId \in QueryIds :
                 cawait = Outbound(creq.id,
                     <<StateReadMsg(<<[queryId |-> queryId, key |-> <<1, 7, 3, 47, 102, 47>>]>>)>>)
         /\ cpc = "replied" => cawait = None
    /\ creq.kind \in {"genesis", "begin", "end"} =>
         /\ cnreads = 0
         /\ cnwrites = 0
         /\ cawait = None
         /\ cbatch = None
         /\ creply = ErrorReply(NoError)

\* checkTx of a request whose message does not convert has replied, after
\* its one read
C27_Witness ==
    /\ creq.kind = "check"
    /\ cpc = "replied"
    /\ ~Convertible
    /\ creply.error.code = FROM_ANY
    /\ cnreads = 1

\* C28: a deliverTx invocation sends at most one state read, whose keys are
\* the fee pool key, the sender's key and the recipient's key in this
\* order, and at most one state write; the write is sent in the step that
\* receives the answer to the read and in no other, the reply after a write
\* is made in the step that receives the answer to the write (or its
\* failure) and in no other, and the read and the write carry the id of the
\* request.
C28_ReadThenWriteThenReply ==
    /\ [](creq.kind = "deliver" =>
            /\ cnreads <= 1
            /\ cnwrites <= 1
            /\ cpc = "awaitRead" =>
                 /\ cnreads = 1 /\ cnwrites = 0 /\ Len(cawait) = 1
                 /\ cawait[1].kind = "stateRead"
                 /\ cawait[1].id = creq.id
                 /\ Len(cawait[1].keys) = 3
                 /\ cawait[1].keys[1].key = <<1, 2, 8>> \o formatUint64(chainId)
                 /\ cawait[1].keys[2].key = <<1, 1, Len(Carried.fromAddress)>> \o Carried.fromAddress
                 /\ cawait[1].keys[3].key = <<1, 1, Len(Carried.toAddress)>> \o Carried.toAddress
            /\ cpc = "awaitWrite" =>
                 /\ cnreads = 1 /\ cnwrites = 1 /\ Len(cbatch) = 1
                 /\ cbatch[1].kind = "stateWrite"
                 /\ cbatch[1].id = creq.id
                 /\ cawait = None
                 /\ ReadAnswered
            /\ cnwrites = 1 => cnreads = 1)
    /\ [][creq'.kind = "deliver" =>
            /\ cnwrites' # cnwrites => (cpc = "awaitRead" /\ cpc' = "awaitWrite" /\ ReadAnswered')
            /\ (cpc # "idle" /\ cpc' # "idle") => cnreads' = cnreads
            /\ (cpc' = "replied" /\ cnwrites' = 1) => cpc \in {"awaitWrite", "replied"}
            /\ cpc = "awaitWrite" => cpc' = "replied"]_vars

\* a deliverTx under the id 2 has read, written and replied with no error
C28_Witness ==
    /\ creq.kind = "deliver"
    /\ creq.id = 2
    /\ cpc = "replied"
    /\ cnreads = 1
    /\ cnwrites = 1
    /\ cbatch[1].id = 2
    /\ creply.error = NoError

\* C29: the write batch of a successful deliverTx from an address to itself
\* has two sets, one under the fee pool key and one under the key of the
\* account, and no delete, whatever balance it leaves.
C29_SelfTransferBatch ==
    (DeliverSucceeded /\ Msg.fromAddress = Msg.toAddress) =>
        /\ Len(cbatch) = 1
        /\ Len(cbatch[1].sets) = 2
        /\ {cbatch[1].sets[i].key : i \in 1..2} = {<<1, 2, 8>> \o formatUint64(chainId), KFrom}
        /\ cbatch[1].deletes = <<>>

\* a transfer to oneself has succeeded and its batch leaves the balance 0
C29_Witness ==
    /\ DeliverSucceeded
    /\ Msg.fromAddress = Msg.toAddress
    /\ \E i \in 1..Len(cbatch[1].sets) :
         /\ cbatch[1].sets[i].key = KFrom
         /\ decodeAccount(cbatch[1].sets[i].value).amount = 0

\* what deliverTx makes of the answer to its read when the FSM gives the
\* results of the state it answered from in the order p
ReadKeys == deliverTxStart(creq, cids).sent[1].keys
OutcomeInOrder(p) ==
    deliverMessageSend(creq, cids, AnswerOk([i \in 1..3 |-> QueryResult(cstore, ReadKeys[p[i]])]))

\* C30: whatever the order of the results in the answer to the read of
\* deliverTx, the write batch or the reply that deliverTx makes of it is the
\* same, and it is the one it has made.
C30_ResultOrderIrrelevant ==
    (creq.kind = "deliver" /\ ReadAnswered) =>
        /\ \A p, q \in Orders[3] : OutcomeInOrder(p) = OutcomeInOrder(q)
        /\ \A p \in Orders[3] :
             IF OutcomeInOrder(p).done
             THEN cbatch = None /\ creply = OutcomeInOrder(p).reply
             ELSE cbatch = Outbound(creq.id, OutcomeInOrder(p).sent)

\* what deliverTx makes of the state it was answered from when it has drawn
\* the query ids ids, the results in the order of the keys
OutcomeWithIds(ids) ==
    LET keys == deliverTxStart(creq, ids).sent[1].keys IN
    deliverMessageSend(creq, ids, AnswerOk([i \in 1..3 |-> QueryResult(cstore, keys[i])]))

\* C40: the three query ids of a batched read differ from one another, and
\* whatever ids deliverTx draws, the write batch or the reply it makes of
\* the same request and the same state is the same.
C40_DeterministicInQueryIds ==
    (creq.kind = "deliver" /\ ReadAnswered) =>
        /\ DistinctIds
        /\ \A ids, jds \in generateQueryIds : OutcomeWithIds(ids) = OutcomeWithIds(jds)

\* the step is the handler resuming from a state read that failed: the
\* answer embedded an error, was of another kind, or did not come in time
ReadFailed == cpc = "awaitRead" /\ cpc' # "awaitRead" /\ cstore' = NoStore

\* C35: when the state read of checkTx or of deliverTx fails, the handler
\* ends in that step with a reply that carries an error, and no state write
\* is issued.
C35_FailedReadRepliesError ==
    [][ReadFailed => /\ cpc' = "replied"
                     /\ creply'.error # NoError
                     /\ cnwrites' = 0
                     /\ cbatch' = <<>>]_vars

\* the state read of a deliverTx failed and the handler has replied
C35_Witness ==
    /\ cpc = "replied"
    /\ creq.kind = "deliver"
    /\ cnreads = 1
    /\ cstore = NoStore
    /\ creply.error # NoError
    /\ cnwrites = 0

\* C37: deliverTx issues a state write only for a MessageSend that checkTx
\* accepts, one whose addresses have 20 bytes each and whose amount is not
\* 0; and a transfer between different addresses sets no account row with
\* balance 0.
C37_DeliverValidatesLikeCheck ==
    (creq.kind = "deliver" /\ cbatch # None) =>
        LET batch == cbatch[1] IN
        /\ validateAddress(Msg.fromAddress)
        /\ validateAddress(Msg.toAddress)
        /\ Msg.amount # 0
        /\ Msg.fromAddress # Msg.toAddress =>
              \A i \in SetsOf(batch, KFrom) \cup SetsOf(batch, KTo) :
                  decodeAccount(batch.sets[i].value).amount # 0

(***************************************************************************)
(* Properties of the socket client                                         *)
(***************************************************************************)
Awaiting == {c \in 1..Len(calls) : calls[c].status = "awaiting"}
\* the sendSync calls outstanding have different ids
DistinctOutstanding == \A c, d \in Awaiting : calls[c].id = calls[d].id => c = d

\* C9: while the outstanding sendSync calls have distinct ids, a response
\* resolves exactly the waiter whose id is the response's, with the whole
\* message, and leaves every other call as it was, whatever the order in
\* which the responses come
C9_ResponseResolvesItsWaiter ==
    [][\A message \in InboundMessages :
        (/\ DistinctOutstanding
         /\ isPending(message)
         /\ inbound' = inbound + 1
         /\ handleFSMResponse(message)) =>
            /\ \E c \in Awaiting : calls[c].id = message.id
            /\ \A c \in 1..Len(calls) :
                 IF c \in Awaiting /\ calls[c].id = message.id
                 THEN /\ calls'[c].status = "resolved"
                      /\ calls'[c].response = message
                 ELSE calls'[c] = calls[c]
            /\ Len(calls') = Len(calls)]_vars

\* a later sendSync call has been resolved with the response of its id while
\* an earlier one, under another id, is still awaiting
C9_Witness ==
    \E c, d \in 1..Len(calls) :
        /\ c < d
        /\ calls[c].id # calls[d].id
        /\ calls[c].status = "awaiting"
        /\ calls[d].status = "resolved"
        /\ calls[d].response.id = calls[d].id
        /\ calls[d].response.kind = "stateRead"

\* C10: a sendSync call that timed out has no pending entry and has failed
\* with PLUGIN_TIMEOUT (code 1, module "plugin", "a plugin timeout occurred")
C10_TimeoutError ==
    \A c \in 1..Len(calls) :
        calls[c].status = "rejected" =>
            /\ \A id \in DOMAIN pending : pending[id] # c
            /\ calls[c].failure = errPluginTimeout

\* the kinds of frame with which the FSM answers a sendSync call
ResponseKinds == {"config", "stateRead", "stateWrite"}

\* some sendSync call under this id has timed out
TimedOut(id) == \E c \in 1..Len(calls) : calls[c].id = id /\ calls[c].status = "rejected"

C15_RoutedByPendingId ==
    [][inbound' = inbound + 1 =>
        \/ /\ tasks' = tasks
           /\ sent' = sent
           /\ \E id \in DOMAIN pending :
                /\ pending' = MapDelete(pending, id)
                /\ calls'[pending[id]].status = "resolved"
                /\ calls'[pending[id]].response.id = id
                /\ \A c \in 1..Len(calls) : c # pending[id] => calls'[c] = calls[c]
                /\ Len(calls') = Len(calls)
        \/ /\ Len(tasks') = Len(tasks) + 1
           /\ tasks'[Len(tasks')].id \notin DOMAIN pending
           /\ \A c \in 1..Len(calls) : calls'[c] = calls[c]]_vars

\* a frame that carries a request kind was taken for the response to a call,
\* and a frame that carries a response kind started a handler
C15_Witness ==
    /\ \E c \in 1..Len(calls) :
         calls[c].status = "resolved" /\ calls[c].response.kind \in {"begin", "check", "deliver"}
    /\ \E t \in 1..Len(tasks) : tasks[t].kind \in ResponseKinds

\* the kinds of request that are answered with their result
RequestKinds == {"genesis", "begin", "check", "deliver", "end"}

\* the handler t of a request ends in this step
Ends(t) == tasks[t].pc # "done" /\ tasks'[t].pc = "done"

\* C16: a handler started for a genesis, begin, check, deliver or end
\* request ends by writing one frame that carries the id of the request and
\* either the kind of the request or an error; once ended it writes nothing
\* more; every frame that is not a call of the plugin is written by the one
\* handler that ends in that step; and time and again every handler started
\* has ended, so that each of them eventually ends.
C16_AnsweredOnce ==
    /\ [][/\ \A t \in 1..Len(tasks) :
              tasks[t].kind \in RequestKinds =>
                /\ Ends(t) => /\ Len(sent') = Len(sent) + 1
                              /\ sent'[Len(sent')].id = tasks[t].id
                              /\ sent'[Len(sent')].kind \in {tasks[t].kind, "error"}
                /\ tasks[t].pc = "done" => tasks'[t] = tasks[t]
          /\ (Len(sent') > Len(sent) /\ sent'[Len(sent')].kind \notin ResponseKinds)
                => /\ Len(sent') = Len(sent) + 1
                   /\ Cardinality({t \in 1..Len(tasks) : Ends(t)}) = 1
          /\ (Len(tasks') > Len(tasks) /\ tasks'[Len(tasks')].kind \in RequestKinds)
                => tasks'[Len(tasks')].pc # "done"]_vars
    /\ []<>(\A t \in 1..Len(tasks) :
               tasks[t].kind \in RequestKinds =>
                   (tasks[t].pc = "done" /\ \E i \in 1..Len(sent) : sent[i].id = tasks[t].id))

\* a request that reads no state and one whose state read the FSM answered
\* have both been handled and each has its answer
C16_Witness ==
    \E t, u \in 1..Len(tasks) :
        /\ tasks[t].kind \in {"genesis", "begin", "end"} /\ tasks[t].pc = "done"
        /\ tasks[u].kind \in {"check", "deliver"} /\ tasks[u].pc = "done"
        /\ calls[tasks[u].call].status = "resolved"
        /\ \E i, j \in 1..Len(sent) :
             /\ sent[i] = PluginToFSM(tasks[t].id, tasks[t].kind, NoError)
             /\ sent[j].id = tasks[u].id /\ sent[j].kind = tasks[u].kind

\* C17: a request that carries no recognized kind is answered, under its
\* id, with the error INVALID_FSM_TO_PLUGIN_MESSAGE (code 8).
C17_InvalidMessageError ==
    \A t \in 1..Len(tasks) :
        (tasks[t].kind = "none" /\ tasks[t].pc = "done") =>
            \E i \in 1..Len(sent) :
                /\ sent[i].id = tasks[t].id
                /\ sent[i].error.code = INVALID_FSM_TO_PLUGIN_MESSAGE

\* C21: start() has completed only if its handshake call was resolved by a
\* message of id 999 that carries a config; once the call has been resolved
\* by a message of another kind and start() has run on, or the call has been
\* rejected by its timeout, start() has failed; and a failed start() never
\* completes.
C21_HandshakeNeedsConfig ==
    /\ [](\A t \in 1..Len(tasks) :
            tasks[t].kind = "handshake" =>
                LET call == calls[tasks[t].call] IN
                /\ tasks[t].pc = "done" =>
                     /\ call.status = "resolved"
                     /\ call.response.id = HandshakeId
                     /\ call.response.kind = "config"
                /\ (call.status = "resolved" /\ call.response.kind # "config" /\ ~ready(t))
                     => tasks[t].pc = "failed"
                /\ call.status = "rejected" => tasks[t].pc = "failed")
    /\ [][\A t \in 1..Len(tasks) :
             (tasks[t].kind = "handshake" /\ tasks[t].pc = "failed") => tasks'[t].pc = "failed"]_vars

\* start() has completed on a config, after other frames had been handled
C21_Witness ==
    \E t \in 1..Len(tasks) :
        /\ tasks[t].kind = "handshake"
        /\ tasks[t].pc = "done"
        /\ calls[tasks[t].call].response = FSMToPlugin(HandshakeId, "config", 0)
        /\ inbound > 1

\* C22: every error a contract handler puts into its reply has the
\* module "plugin".
C22_ErrorsHaveModulePlugin ==
    (cpc = "replied" /\ creply.error # NoError) => creply.error.module = DEFAULT_MODULE

\* C31: at every moment at most one sendSync call is awaiting under a given
\* id, and a step that installs a pending entry under an id replaces no
\* entry whose call is still awaiting.
C31_OneAwaitingPerId ==
    /\ [](\A c, d \in 1..Len(calls) :
            (calls[c].status = "awaiting" /\ calls[d].status = "awaiting" /\ calls[c].id = calls[d].id)
                => c = d)
    /\ [][\A id \in DOMAIN pending :
             (id \in DOMAIN pending' /\ pending'[id] # pending[id])
                 => calls'[pending[id]].status # "awaiting"]_vars

\* the step is a failure local to the requests under this id: the timeout
\* of a call that was awaiting under it, or the end of a handler under it
\* with an error for reply
FailsUnder(id) ==
    \/ \E c \in 1..Len(calls) :
          calls[c].id = id /\ calls[c].status = "awaiting" /\ calls'[c].status = "rejected"
    \/ \E t \in 1..Len(tasks) :
          /\ tasks[t].id = id
          /\ Ends(t)
          /\ Len(sent') = Len(sent) + 1
          /\ sent'[Len(sent')].error # NoError

\* C32: a step in which a request under one id fails (its nested call
\* times out, its payload is invalid, the contract rejects it) leaves alone
\* everything under the other ids: their entries of the pending table, their
\* calls, still awaiting their own responses, and their handlers, and it
\* writes no frame under another id.
C32_FailureIsLocal ==
    [][\A id \in Ids :
         FailsUnder(id) =>
            /\ \A other \in (DOMAIN pending \cup DOMAIN pending') \ {id} :
                 /\ other \in DOMAIN pending
                 /\ other \in DOMAIN pending'
                 /\ pending'[other] = pending[other]
            /\ \A c \in 1..Len(calls) : calls[c].id # id => calls'[c] = calls[c]
            /\ \A t \in 1..Len(tasks) : tasks[t].id # id => tasks'[t] = tasks[t]
            /\ Len(tasks') = Len(tasks)
            /\ Len(calls') = Len(calls)
            /\ \A i \in (Len(sent) + 1)..Len(sent') : sent'[i].id = id]_vars

\* a call under id 1 has timed out and its handler has replied with the
\* error, while a call under id 2 made before that still awaits, its entry
\* in the table
C32_Witness ==
    \E c, d \in 1..Len(calls) :
        /\ calls[c].id = 1 /\ calls[c].status = "rejected"
        /\ calls[d].id = 2 /\ calls[d].status = "awaiting"
        /\ 2 \in DOMAIN pending /\ pending[2] = d
        /\ \E i \in 1..Len(sent) : sent[i].id = 1 /\ sent[i].error # NoError

\* the kinds of frame that are taken for stray responses when they start a
\* handler
StrayKinds == {"stateRead", "stateWrite", "error"}

\* C34: a frame that carries a state read, a state write or an error and
\* whose id is not pending is ignored: in the step that takes it nothing is
\* written, the pending table, the calls and the timers are unchanged, the
\* handler it starts has ended without calling the contract, and at no time
\* does such a handler have anything left to do.
C34_StrayResponseIgnored ==
    /\ [](\A t \in 1..Len(tasks) : tasks[t].kind \in StrayKinds => tasks[t].pc = "done")
    /\ [][(/\ inbound' = inbound + 1
           /\ Len(tasks') = Len(tasks) + 1
           /\ tasks'[Len(tasks')].kind \in StrayKinds)
            => /\ tasks'[Len(tasks')].id \notin DOMAIN pending
               /\ tasks'[Len(tasks')].call = 0
               /\ sent' = sent
               /\ pending' = pending
               /\ calls' = calls
               /\ timers' = timers]_vars

\* a state read, a state write and an error have each arrived under an id
\* that was not pending
C34_Witness ==
    \A kind \in StrayKinds : \E t \in 1..Len(tasks) : tasks[t].kind = kind /\ tasks[t].pc = "done"

\* the timeout of this call has not elapsed
Armed(call) == \E i \in 1..Len(timers) : timers[i] = call

\* C36: a timeout removes no pending entry but that of its own call, and a
\* frame that arrives under the id of a call which awaits and whose own
\* timeout has not elapsed is taken for its response: it starts no handler.
C36_StaleTimerHarmless ==
    [][/\ (timers # <<>> /\ timers' = Tail(timers)) =>
            \A id \in DOMAIN pending : id \notin DOMAIN pending' => pending[id] = Head(timers)
       /\ (inbound' = inbound + 1 /\ Len(tasks') = Len(tasks) + 1) =>
            \A c \in 1..Len(calls) :
                (calls[c].status = "awaiting" /\ Armed(c)) => calls[c].id # tasks'[Len(tasks')].id]_vars

\* C39: every entry of the pending table is that of a call which still
\* awaits, every call which still awaits has its entry in the table, and
\* the table is empty whenever no call awaits.
C39_PendingIsTheAwaiting ==
    /\ \A id \in DOMAIN pending :
         calls[pending[id]].status = "awaiting" /\ calls[pending[id]].id = id
    /\ \A c \in 1..Len(calls) :
         calls[c].status = "awaiting" =>
            (calls[c].id \in DOMAIN pending /\ pending[calls[c].id] = c)
    /\ (\A c \in 1..Len(calls) : calls[c].status # "awaiting") => pending = <<>>

(***************************************************************************)
(* Properties of the connection                                            *)
(***************************************************************************)
\* the step is the loss of an open socket that close() did not ask for
Lost == \E s \in 1..Len(sockets) :
            sockets[s].state = "open" /\ sockets'[s].state = "closed" /\ ~closeRequested

\* C12: when the connection is lost, every entry of the pending table is
\* removed in that step and its call is rejected with FAILED_PLUGIN_READ.
C12_PendingFailedOnLoss ==
    [][Lost => /\ pending' = <<>>
               /\ \A id \in DOMAIN pending :
                    /\ calls'[pending[id]].status = "rejected"
                    /\ calls'[pending[id]].failure.code = FAILED_PLUGIN_READ]_vars

\* C13: once close() has been called the pending table is empty and no call
\* is left awaiting.
C13_CloseFailsPending ==
    closeRequested => (pending = <<>> /\ \A c \in 1..Len(calls) : calls[c].status # "awaiting")

\* start() fails in this step: its handshake is rejected
StartFails ==
    \E t \in 1..Len(tasks) :
        tasks[t].kind = "handshake" /\ tasks[t].pc # "failed" /\ tasks'[t].pc = "failed"

\* C18: the loss of an open socket that close() did not ask for leaves a
\* reconnection armed or in progress, a failed attempt leaves the retry loop
\* waiting for its next attempt, and no such loss makes start() fail: when
\* start() fails, the socket it listens on is still open or close() was
\* called.
C18_ReconnectsAndStartSurvives ==
    [][/\ Lost => (rtimers' > 0 \/ loop'.pc # "none")
       /\ (loop.pc = "attempt" /\ loop'.pc # "attempt" /\ ~isConnected') => loop'.pc = "backoff"
       /\ StartFails =>
            \/ closeRequested
            \/ \E s \in 1..Len(sockets) : sockets[s].listening /\ sockets[s].state = "open"]_vars

\* C19: every socket that is open has the inbound reader attached.
C19_ReaderOnEverySocket ==
    \A s \in 1..Len(sockets) : sockets[s].state = "open" => sockets[s].listening

\* C20: once close() has been called no step makes a new socket and no
\* socket is open.
C20_NoConnectionAfterClose ==
    [][closeRequested =>
        /\ Len(sockets') = Len(sockets)
        /\ \A s \in 1..Len(sockets') : sockets'[s].state # "open"]_vars

\* the step is a sendSync call whose frame cannot be written: a call is
\* added while the client holds no connection
WriteFails == Len(calls') = Len(calls) + 1 /\ conn = 0

\* C33: when the frame of a sendSync call cannot be written, the call fails
\* in that step with FAILED_PLUGIN_WRITE and its pending entry is removed.
C33_WriteFailureFailsCall ==
    [][WriteFails =>
        LET call == Len(calls') IN
        /\ calls'[call].status = "rejected"
        /\ calls'[call].failure.code = FAILED_PLUGIN_WRITE
        /\ calls'[call].id \notin DOMAIN pending']_vars

(***************************************************************************)
(* Properties of the frame reader                                          *)
(***************************************************************************)
\* C14: once every byte of the frames written has been delivered, in
\* whatever chunks, the payloads handed to handleInboundMessage are exactly
\* the payloads written, in order, and nothing is left in the reader.
C14_FramesDispatchedInOrder ==
    wire = <<>> => (dispatched = written /\ buffer = <<>> /\ expectedLength = None)

\* three frames, an empty one and one of several bytes among them, have been
\* delivered to the last byte and dispatched
C14_Witness ==
    /\ wire = <<>>
    /\ Len(written) = 3
    /\ \E i \in 1..3 : written[i] = <<>>
    /\ \E i \in 1..3 : Len(written[i]) > 1
    /\ Len(dispatched) = 3

\* the bytes the frames take on the wire, prefixes included
RECURSIVE FramedSize(_)
FramedSize(payloads) ==
    IF payloads = <<>> THEN 0 ELSE 4 + Len(Head(payloads)) + FramedSize(Tail(payloads))

\* C25: at every point of a delivery in chunks the payloads dispatched are
\* the payloads of the first frames written, in order and byte for byte,
\* and a frame is dispatched only when the listener has received all the
\* bytes up to its end.
C25_DispatchedIsPrefix ==
    /\ Len(dispatched) <= Len(written)
    /\ dispatched = SubSeq(written, 1, Len(dispatched))
    /\ FramedSize(dispatched) <= FramedSize(written) - Len(wire)

\* in the middle of a delivery: a frame dispatched, the next one received
\* in part, its payload one that reads as a length prefix, bytes still to come
C25_Witness ==
    /\ Len(dispatched) >= 1
    /\ Len(dispatched) < Len(written)
    /\ written[Len(dispatched) + 1] = <<0, 0, 0, 1, 7>>
    /\ expectedLength = Some(5)
    /\ buffer = <<0, 0, 0>>
    /\ wire # <<>>

(***************************************************************************)
(* Properties of the key builders and the amount validation                *)
(***************************************************************************)
\* the value the bytes denote, most significant byte first
RECURSIVE ValueOfBytes(_)
ValueOfBytes(b) ==
    IF b = <<>> THEN 0 ELSE ValueOfBytes(SubSeq(b, 1, Len(b) - 1)) * 256 + b[Len(b)]

RECURSIVE LenPrefixedSize(_)
LenPrefixedSize(items) ==
    IF items = <<>> THEN 0
    ELSE (IF Head(items) = <<>> THEN 0 ELSE 1 + Len(Head(items))) + LenPrefixedSize(Tail(items))

NonEmpty(item) == item # <<>>

\* C23: keyForAccount(addr) is 1, 0x01, 20 and the address bytes;
\* keyForFeePool(chainID) is 1, 0x02, 8 and eight bytes that denote chainID
\* most significant first; keyForFeeParams() is 1, 0x07, 3, '/', 'f', '/';
\* the joiner gives an empty item neither a length byte nor data: its
\* output is that of the non-empty items alone, each with one length byte.
C23_KeyLayout ==
    /\ kcall.fn = "keyForAccount" => kcall.out = <<1, 1, 20>> \o kcall.arg
    /\ kcall.fn = "keyForFeePool" =>
         /\ Len(kcall.out) = 11
         /\ SubSeq(kcall.out, 1, 3) = <<1, 2, 8>>
         /\ \A i \in 4..11 : kcall.out[i] \in 0..255
         /\ SubSeq(kcall.out, 4, 7) = <<0, 0, 0, 0>>
         /\ ValueOfBytes(SubSeq(kcall.out, 8, 11)) = kcall.arg
    /\ kcall.fn = "keyForFeeParams" => kcall.out = <<1, 7, 3, 47, 102, 47>>
    /\ kcall.fn = "joinLenPrefix" =>
         /\ kcall.out = joinLenPrefix(SelectSeq(kcall.arg, NonEmpty))
         /\ Len(kcall.out) = LenPrefixedSize(kcall.arg)

\* the joiner was given an empty item between two non-empty ones
C23_Witness ==
    /\ kcall.fn = "joinLenPrefix"
    /\ kcall.arg = <<<<1>>, <<>>, <<0, 0>>>>
    /\ kcall.out = <<1, 1, 2, 0, 0>>

\* C24: validateAmount(v) is true exactly if v denotes an integer from 1 to
\* the largest unsigned 64-bit value: false for 0, negative values,
\* non-integers and values above the range.
C24_ValidAmountIsUint64 ==
    kcall.fn = "validateAmount" =>
        (kcall.out <=> /\ kcall.arg.den # 0
                       /\ kcall.arg.num % kcall.arg.den = 0
                       /\ kcall.arg.num \div kcall.arg.den \in 1..MaxUint)

\* C38: the key of an account is the key of another 20-byte address only if
\* the addresses are the same, the key of a fee pool is the key of another
\* chain id only if the ids are the same, and no account key is a fee-pool
\* key or the fee-params key, nor is any fee-pool key the fee-params key.
C38_KeysInjectiveAndDisjoint ==
    /\ kcall.fn = "keyForAccount" =>
         /\ \A b \in KeyAddresses : keyForAccount(b) = kcall.out <=> b = kcall.arg
         /\ \A d \in ChainIds : keyForFeePool(d) # kcall.out
         /\ kcall.out # keyForFeeParams
    /\ kcall.fn = "keyForFeePool" =>
         /\ \A d \in ChainIds : keyForFeePool(d) = kcall.out <=> d = kcall.arg
         /\ kcall.out # keyForFeeParams

\* the key of the fee pool of chain 256, whose low byte is that of chain 0
C38_Witness ==
    /\ kcall.fn = "keyForFeePool"
    /\ kcall.arg = 256
    /\ kcall.out = <<1, 2, 8, 0, 0, 0, 0, 0, 0, 1, 0>>

====
